---- MODULE Spec2Model ----
(***************************************************************************)
(* Model of src/Indian_companies_sectors.py: CompanyDataExtractor and its  *)
(* batch run process_all_companies.  One run of the script is modelled     *)
(* step by step; the MySQL store, the yfinance provider and the wall clock *)
(* are the run's inputs and are drawn nondeterministically at each call.   *)
(*                                                                         *)
(* Time is counted in ticks of half a second, so that both delays the      *)
(* source uses (0.5 s and 1 s) are whole numbers; the TIMESTAMP columns    *)
(* hold whole seconds.  The provider's values are integers and strings     *)
(* that fit their columns; a value the store rejects is an upsert that     *)
(* raises Error.  A statement that raises leaves the table as it was.  The  *)
(* surrogate id column takes part in nothing and is left out.              *)
(***************************************************************************)
EXTENDS Integers, Sequences, FiniteSets

VARIABLES
    connection,   \* self.connection: "none" | "open" | "lost" | "closed"
    source,       \* rows of india_listed_companies, <<Symbol, Name>> each
    table,        \* rows of India_listed_companies_information, in insertion order
    startTable,   \* the destination table as the run found it
    clock,        \* wall clock, in ticks
    delay,        \* the delay argument, in ticks
    pc,           \* position in process_all_companies
    companies,    \* local companies
    total,        \* local total
    successful,   \* local successful
    failed,       \* local failed
    idx,          \* local idx of the enumerate loop
    data,         \* local data: <<>> is None, <<d>> is the dict d
    calls,        \* the calls made so far, in order: <<operation, symbol, result>>
    summary       \* <<>> until the summary is printed, then <<[total, successful, failed]>>

vars == <<connection, source, table, startTable, clock, delay, pc, companies,
          total, successful, failed, idx, data, calls, summary>>

-----------------------------------------------------------------------------
(* Bounds of the model *)

\* longest source table
MaxLen == 2

\* ticks a provider call may take
MaxElapsed == 1

-----------------------------------------------------------------------------
(* Values *)

\* ticks per second: TIMESTAMP columns have a resolution of one second
TicksPerSecond == 2

\* delay: float = 0.5
DefaultDelay == 1

\* process_all_companies(delay=1)
MainDelay == 2

Delays == {DefaultDelay, MainDelay}

Symbols == {"TCS.NS", "BADSYM.NS"}

NameOf(s) == IF s = "TCS.NS" THEN "Tata Consultancy" ELSE "Bad Co"

\* None / NULL is the empty tuple, a present value v is <<v>>
None == <<>>

Some(v) == <<v>>

\* ticker.info answers of the provider: dicts that may lack any of the keys
Infos ==
    { [totalRevenue |-> 100, marketCap |-> 900, industry |-> "IT Services", sector |-> "Technology"],
      [totalRevenue |-> 120, marketCap |-> 900, industry |-> "IT Services", sector |-> "Technology"],
      [marketCap |-> 500] }

\* info.get(key, None)
Get(info, key) == IF key \in DOMAIN info THEN Some(info[key]) ELSE None

\* the dict built by fetch_company_data
ExtractFields(symbol, info) ==
    [symbol     |-> symbol,
     revenue    |-> Get(info, "totalRevenue"),
     market_cap |-> Get(info, "marketCap"),
     industry   |-> Get(info, "industry"),
     sector     |-> Get(info, "sector")]

\* CURRENT_TIMESTAMP of a TIMESTAMP column: whole seconds
CurrentTimestamp(t) == t \div TicksPerSecond

RECURSIVE SeqsUpTo(_, _)
SeqsUpTo(S, n) ==
    IF n = 0 THEN {<<>>}
    ELSE LET shorter == SeqsUpTo(S, n - 1)
         IN  shorter \cup {Append(q, x) : q \in {r \in shorter : Len(r) = n - 1}, x \in S}

\* contents the source table may have
SourceTables == SeqsUpTo({<<s, NameOf(s)>> : s \in Symbols}, MaxLen)

-----------------------------------------------------------------------------
(* The destination table *)

RowsOf(tbl, symbol) == {i \in DOMAIN tbl : tbl[i].symbol = symbol}

\* variant: the VALUES tuple lists market_cap before revenue
NewRowValuesSwapped(d, ts) ==
    [symbol     |-> d.symbol,
     revenue    |-> d.market_cap,
     market_cap |-> d.revenue,
     industry   |-> d.industry,
     sector     |-> d.sector,
     created_at |-> ts,
     updated_at |-> ts]

\* a new row: the VALUES of the INSERT, created_at and updated_at both
\* DEFAULT CURRENT_TIMESTAMP
NewRow(d, ts) ==
    [symbol     |-> d.symbol,
     revenue    |-> d.revenue,
     market_cap |-> d.market_cap,
     industry   |-> d.industry,
     sector     |-> d.sector,
     created_at |-> ts,
     updated_at |-> ts]

\* whether the UPDATE part changes a column of row r
Changes(r, d) ==
    \/ r.revenue # d.revenue
    \/ r.market_cap # d.market_cap
    \/ r.industry # d.industry
    \/ r.sector # d.sector

\* variant: updated_at is set by every UPDATE
TouchStampAlways(r, d, ts) == ts

\* updated_at ... ON UPDATE CURRENT_TIMESTAMP: set when a column of the row
\* changes its value, kept when the UPDATE leaves the row as it was
TouchStamp(r, d, ts) == IF Changes(r, d) THEN ts ELSE r.updated_at

\* ON DUPLICATE KEY UPDATE revenue = VALUES(revenue), ...
UpdateRow(r, d, ts) ==
    [r EXCEPT !.revenue    = d.revenue,
              !.market_cap = d.market_cap,
              !.industry   = d.industry,
              !.sector     = d.sector,
              !.updated_at = TouchStamp(r, d, ts)]

\* variant: a plain INSERT into a table whose symbol column is not UNIQUE
UpsertWithoutUnique(tbl, d, ts) == Append(tbl, NewRow(d, ts))

\* INSERT INTO ... VALUES ... ON DUPLICATE KEY UPDATE ..., symbol being UNIQUE
Upsert(tbl, d, ts) ==
    IF RowsOf(tbl, d.symbol) # {}
    THEN [i \in DOMAIN tbl |-> IF tbl[i].symbol = d.symbol THEN UpdateRow(tbl[i], d, ts) ELSE tbl[i]]
    ELSE Append(tbl, NewRow(d, ts))

\* destination tables an earlier run may have left: CREATE TABLE IF NOT EXISTS
\* keeps them
StartTables ==
    { <<>>,
      <<NewRow(ExtractFields("TCS.NS", [totalRevenue |-> 100, marketCap |-> 900,
                                        industry |-> "IT Services", sector |-> "Technology"]), 0)>> }

-----------------------------------------------------------------------------
(* Outcomes of a call on the store: "ok", "error" (mysql.connector.Error is  *)
(* raised, the connection stays up) or "lost" (the connection is found or   *)
(* becomes not connected)                                                   *)

StoreOutcomes == {"ok", "error", "lost"}

ConnectionAfter(outcome) == IF outcome = "lost" THEN "lost" ELSE connection

\* a connection that is not up stays so: is_connected() is False
Possible(outcome) == connection = "open" \/ outcome = "lost"

-----------------------------------------------------------------------------
Init ==
    /\ connection = "none"
    /\ source \in SourceTables
    /\ startTable \in StartTables
    /\ table = startTable
    /\ clock = TicksPerSecond
    /\ delay \in Delays
    /\ pc = "connect"
    /\ companies = <<>>
    /\ total = 0
    /\ successful = 0
    /\ failed = 0
    /\ idx = 0
    /\ data = None
    /\ calls = <<>>
    /\ summary = <<>>

locals == <<companies, total, successful, failed, idx, data>>

\* "ok" for a call that returned a truthy result, "fail" otherwise
Result(ok) == IF ok THEN "ok" ELSE "fail"

Called(op, symbol, ok) == Append(calls, <<op, symbol, Result(ok)>>)

\* variant: the result of the step is not looked at
AfterStepIgnoringFailure(ok, next) == next

\* if not self.connect_db(): return / if not self.create_table(): return
AfterStep(ok, next) == IF ok THEN next ELSE "done"

\* connect_db: True when connected, False on Error, None (falsy) when the
\* connection object comes back not connected
ConnectDb ==
    /\ pc = "connect"
    /\ \E outcome \in StoreOutcomes :
          /\ connection' = IF outcome = "ok" THEN "open"
                           ELSE IF outcome = "lost" THEN "lost" ELSE connection
          /\ calls' = Called("connect_db", "", outcome = "ok")
          /\ pc' = AfterStep(outcome = "ok", "create")
    /\ UNCHANGED <<source, table, startTable, clock, delay, locals, summary>>

\* create_table: CREATE TABLE IF NOT EXISTS leaves an existing table as it is
CreateTable ==
    /\ pc = "create"
    /\ \E outcome \in StoreOutcomes :
          /\ Possible(outcome)
          /\ connection' = ConnectionAfter(outcome)
          /\ calls' = Called("create_table", "", outcome = "ok")
          /\ pc' = AfterStep(outcome = "ok", "symbols")
    /\ UNCHANGED <<source, table, startTable, clock, delay, locals, summary>>

\* variant: the rows come back whatever happened
SymbolsResultAlways(outcome, rows) == rows

\* get_company_symbols: the rows of the source table, or [] when not
\* connected or when the query raises Error
SymbolsResult(outcome, rows) == IF outcome = "ok" THEN rows ELSE <<>>

\* companies = self.get_company_symbols(); total = len(companies); ...
GetCompanySymbols ==
    /\ pc = "symbols"
    /\ \E outcome \in StoreOutcomes :
          /\ Possible(outcome)
          /\ connection' = ConnectionAfter(outcome)
          /\ companies' = SymbolsResult(outcome, source)
          /\ calls' = Called("get_company_symbols", "", outcome = "ok")
    /\ total' = Len(companies')
    /\ successful' = 0
    /\ failed' = 0
    /\ idx' = 0
    /\ pc' = "loop"
    /\ UNCHANGED <<source, table, startTable, clock, delay, data, summary>>

\* variant: every other entry is skipped
NextIndexSkips(i) == i + 2

\* enumerate(companies, 1)
NextIndex(i) == i + 1

\* for idx, (symbol, name) in enumerate(companies, 1):
LoopHead ==
    /\ pc = "loop"
    /\ IF idx < total
       THEN /\ idx' = NextIndex(idx)
            /\ pc' = "fetch"
       ELSE /\ idx' = idx
            /\ pc' = "summary"
    /\ UNCHANGED <<connection, source, table, startTable, clock, delay, companies,
                   total, successful, failed, data, calls, summary>>

\* the symbol of the current iteration
Symbol == companies[idx][1]

\* data = self.fetch_company_data(symbol): the dict, or None when the
\* provider raises
FetchCompanyData ==
    /\ pc = "fetch"
    /\ \E elapsed \in 0..MaxElapsed : clock' = clock + elapsed
    /\ \/ /\ data' = None
          /\ calls' = Called("fetch", Symbol, FALSE)
       \/ \E info \in Infos :
             /\ data' = Some(ExtractFields(Symbol, info))
             /\ calls' = Called("fetch", Symbol, TRUE)
    /\ pc' = "store"
    /\ UNCHANGED <<connection, source, table, startTable, delay, companies, total,
                   successful, failed, idx, summary>>

\* if data:
Truthy(d) == d # None

\* variant: every iteration counts as successful
TallyCountsAllSuccessful(ok, s, f) == <<s + 1, f>>

\* variant: a failed upsert or fetch is not counted
TallyDropsFailure(ok, s, f) == IF ok THEN <<s + 1, f>> ELSE <<s, f>>

\* successful += 1 / failed += 1
Tally(ok, s, f) == IF ok THEN <<s + 1, f>> ELSE <<s, f + 1>>

\* variant: the sleep sits in the success branch
AfterTallySleepsOnSuccessOnly(ok) == IF ok THEN "sleep" ELSE "loop"

\* time.sleep(delay) follows the if/else whatever branch was taken
AfterTally(ok) == "sleep"

\* if self.insert_company_data(data): successful += 1 else: failed += 1
InsertCompanyData ==
    /\ pc = "store"
    /\ Truthy(data)
    /\ \E outcome \in StoreOutcomes :
          /\ Possible(outcome)
          /\ connection' = ConnectionAfter(outcome)
          /\ table' = IF outcome = "ok"
                      THEN Upsert(table, data[1], CurrentTimestamp(clock))
                      ELSE table
          /\ calls' = Called("insert", data[1].symbol, outcome = "ok")
          /\ successful' = Tally(outcome = "ok", successful, failed)[1]
          /\ failed' = Tally(outcome = "ok", successful, failed)[2]
          /\ pc' = AfterTally(outcome = "ok")
    /\ UNCHANGED <<source, startTable, clock, delay, companies, total, idx, data,
                   summary>>

\* else: failed += 1 (data is None)
SkipInsert ==
    /\ pc = "store"
    /\ ~Truthy(data)
    /\ successful' = Tally(FALSE, successful, failed)[1]
    /\ failed' = Tally(FALSE, successful, failed)[2]
    /\ pc' = AfterTally(FALSE)
    /\ UNCHANGED <<connection, source, table, startTable, clock, delay, companies,
                   total, idx, data, calls, summary>>

\* time.sleep(delay)
Sleep ==
    /\ pc = "sleep"
    /\ clock' = clock + delay
    /\ calls' = Called("sleep", "", TRUE)
    /\ pc' = "loop"
    /\ UNCHANGED <<connection, source, table, startTable, delay, locals, summary>>

\* print(f"Total companies: {total}") ...
PrintSummary ==
    /\ pc = "summary"
    /\ summary' = <<[total |-> total, successful |-> successful, failed |-> failed]>>
    /\ pc' = "close"
    /\ UNCHANGED <<connection, source, table, startTable, clock, delay, locals, calls>>

\* if self.connection and self.connection.is_connected(): self.connection.close()
CloseResult(conn, alive) ==
    IF conn = "open" THEN (IF alive THEN "closed" ELSE "lost") ELSE conn

\* close_connection
CloseConnection ==
    /\ pc = "close"
    /\ \E alive \in BOOLEAN :
          /\ connection' = CloseResult(connection, alive)
          /\ calls' = IF connection' = "closed" THEN Called("close", "", TRUE) ELSE calls
    /\ pc' = "done"
    /\ UNCHANGED <<source, table, startTable, clock, delay, locals, summary>>

Next ==
    \/ ConnectDb
    \/ CreateTable
    \/ GetCompanySymbols
    \/ LoopHead
    \/ FetchCompanyData
    \/ InsertCompanyData
    \/ SkipInsert
    \/ Sleep
    \/ PrintSummary
    \/ CloseConnection

Spec == Init /\ [][Next]_vars

\* the run is sequential code: every step that can be taken is taken
FairSpec == Spec /\ WF_vars(Next)

-----------------------------------------------------------------------------
(* Reading the call log *)

Ops(op) == SelectSeq(calls, LAMBDA c : c[1] = op)

Count(op) == Len(Ops(op))

HasCall(op, symbol, result) == \E i \in DOMAIN calls : calls[i] = <<op, symbol, result>>

LastCall == calls[Len(calls)]

\* iterations whose counter has been incremented
Tallied == IF pc \in {"fetch", "store"} THEN idx - 1 ELSE idx

\* iterations whose delay has been slept
Slept == IF pc \in {"fetch", "store", "sleep"} THEN idx - 1 ELSE idx

SummaryPrinted == summary # <<>>

\* this step is a call of insert_company_data that returns True
InsertSucceeds ==
    /\ pc = "store"
    /\ Truthy(data)
    /\ Len(calls') = Len(calls) + 1
    /\ calls'[Len(calls')] = <<"insert", data[1].symbol, "ok">>

SameFields(r, d) ==
    /\ r.revenue = d.revenue
    /\ r.market_cap = d.market_cap
    /\ r.industry = d.industry
    /\ r.sector = d.sector

-----------------------------------------------------------------------------
(* C1 *)

C1_Counted ==
    /\ successful + failed = Tallied
    /\ SummaryPrinted =>
          /\ summary[1].successful + summary[1].failed = summary[1].total
          /\ summary[1].total = Len(companies)

C1_OneCounterPerIteration ==
    IF pc = "store"
    THEN \/ successful' = successful + 1 /\ failed' = failed
         \/ successful' = successful /\ failed' = failed + 1
    ELSE pc # "symbols" => successful' = successful /\ failed' = failed

\* C1: successful + failed equals the number of iterations finished so far,
\* every iteration adds exactly 1 to exactly one of the two counters and no
\* other step changes them, and the summary printed has
\* successful + failed = total.
C1_SuccessfulPlusFailedIsTotal == []C1_Counted /\ [][C1_OneCounterPerIteration]_vars

C1_Witness ==
    /\ SummaryPrinted
    /\ summary[1] = [total |-> 2, successful |-> 1, failed |-> 1]
    /\ HasCall("insert", "BADSYM.NS", "fail")

-----------------------------------------------------------------------------
(* C2 *)

\* C2: a run that opened the store connection ends with the connection no
\* longer open, having closed it at most once, whether it completed
\* Processing or aborted before it.
C2_RunEndsClosed ==
    (pc = "done" /\ HasCall("connect_db", "", "ok")) =>
        /\ connection # "open"
        /\ Count("close") <= 1

-----------------------------------------------------------------------------
(* C3 *)

SetupFailed == HasCall("connect_db", "", "fail") \/ HasCall("create_table", "", "fail")

\* C3: once connect_db or create_table has failed the run is over: the source
\* table is not read, nothing is fetched or upserted, the loop is not entered
\* and the destination table is as the run found it.
C3_SetupFailureAborts ==
    SetupFailed =>
        /\ pc = "done"
        /\ Count("get_company_symbols") = 0
        /\ Count("fetch") = 0
        /\ Count("insert") = 0
        /\ Count("sleep") = 0
        /\ companies = <<>>
        /\ idx = 0
        /\ table = startTable
        /\ ~SummaryPrinted

C3_Witness ==
    /\ pc = "done"
    /\ calls = <<<<"connect_db", "", "ok">>, <<"create_table", "", "fail">>>>
    /\ source # <<>>

-----------------------------------------------------------------------------
(* C4 *)

\* the current iteration's fetch returned None
FetchFailedNow ==
    /\ pc \in {"store", "sleep"}
    /\ LastCall[1] = "fetch"
    /\ LastCall[3] = "fail"

C4_FailedFetchState ==
    /\ (pc = "store" /\ LastCall = <<"fetch", Symbol, "fail">>) => data = None
    /\ \A i \in DOMAIN calls :
          calls[i][1] = "insert" => calls[i - 1] = <<"fetch", calls[i][2], "ok">>

C4_FailedFetchStep ==
    FetchFailedNow =>
        /\ table' = table
        /\ Count("insert")' = Count("insert")
        /\ successful' = successful
        /\ failed' = IF pc = "store" THEN failed + 1 ELSE failed

\* C4: in an iteration whose fetch returned None, insert_company_data is not
\* called, no step of the iteration changes the destination table, failed
\* grows by 1 and successful stays.
C4_FailedFetchIsNotUpserted == []C4_FailedFetchState /\ [][C4_FailedFetchStep]_vars

C4_Witness ==
    /\ pc = "loop"
    /\ Len(calls) >= 2
    /\ calls[Len(calls) - 1] = <<"fetch", "BADSYM.NS", "fail">>
    /\ LastCall[1] = "sleep"
    /\ failed = 1
    /\ successful = 1

-----------------------------------------------------------------------------
(* C5 *)

\* this step is a successful upsert of a symbol the table already holds
UpsertOfPresent == InsertSucceeds /\ RowsOf(table, data[1].symbol) # {}

OldRow == table[CHOOSE i \in RowsOf(table, data[1].symbol) : TRUE]

NewRowOf == table'[CHOOSE i \in RowsOf(table', data[1].symbol) : TRUE]

C5_KeepsOneRow ==
    /\ Cardinality(RowsOf(table', data[1].symbol)) = 1
    /\ Len(table') = Len(table)
    /\ NewRowOf.created_at = OldRow.created_at
    /\ SameFields(NewRowOf, data[1])

C5_OriginalStep ==
    UpsertOfPresent =>
        /\ C5_KeepsOneRow
        /\ NewRowOf.updated_at > OldRow.updated_at

C5_AmendedStep ==
    UpsertOfPresent =>
        /\ C5_KeepsOneRow
        /\ NewRowOf.updated_at >= OldRow.updated_at
        /\ IF SameFields(OldRow, data[1])
           THEN NewRowOf.updated_at = OldRow.updated_at
           ELSE NewRowOf.updated_at = CurrentTimestamp(clock)

-----------------------------------------------------------------------------
(* C6 *)

\* this step is a successful upsert of a symbol the table does not hold
UpsertOfAbsent == InsertSucceeds /\ RowsOf(table, data[1].symbol) = {}

C6_Step ==
    UpsertOfAbsent =>
        /\ Cardinality(RowsOf(table', data[1].symbol)) = 1
        /\ SameFields(NewRowOf, data[1])
        /\ NewRowOf.created_at = NewRowOf.updated_at
        /\ NewRowOf.created_at = CurrentTimestamp(clock)
        /\ Len(table') = Len(table) + 1
        /\ \A i \in DOMAIN table : table'[i] = table[i]

C6_FetchedFields ==
    (pc = "store" /\ Truthy(data)) =>
        /\ data[1].symbol = Symbol
        /\ \E info \in Infos :
              /\ data[1].revenue = (IF "totalRevenue" \in DOMAIN info THEN <<info.totalRevenue>> ELSE <<>>)
              /\ data[1].market_cap = (IF "marketCap" \in DOMAIN info THEN <<info.marketCap>> ELSE <<>>)
              /\ data[1].industry = (IF "industry" \in DOMAIN info THEN <<info.industry>> ELSE <<>>)
              /\ data[1].sector = (IF "sector" \in DOMAIN info THEN <<info.sector>> ELSE <<>>)

\* C6: a successful upsert of a symbol not yet present leaves exactly one row
\* for it, holding the fetched revenue, market_cap, industry and sector (null
\* where the provider gave none) with created_at = updated_at, and leaves
\* every other row as it was.
C6_UpsertOfAbsentInsertsOneRow == []C6_FetchedFields /\ [][C6_Step]_vars

C6_Witness ==
    /\ pc = "sleep"
    /\ LastCall = <<"insert", "BADSYM.NS", "ok">>
    /\ Len(table) = 2
    /\ table[1].symbol = "TCS.NS"
    /\ table[2].symbol = "BADSYM.NS"
    /\ table[2].revenue = None
    /\ table[2].market_cap = Some(500)
    /\ table[2].created_at = table[2].updated_at

-----------------------------------------------------------------------------
(* C7 *)

\* fetch calls made once the loop stands at its head or beyond
FetchesDue == IF pc = "fetch" THEN idx - 1 ELSE idx

C7_OneFetchPerEntry ==
    /\ Count("fetch") = FetchesDue
    /\ Count("fetch") <= Len(companies)
    /\ \A i \in 1..Count("fetch") : Ops("fetch")[i][2] = companies[i][1]
    /\ Count("insert") <= Count("fetch")
    /\ \A i \in DOMAIN calls :
          calls[i][1] = "insert" => calls[i - 1] = <<"fetch", calls[i][2], "ok">>
    /\ SummaryPrinted => Count("fetch") = Len(companies)

\* C7: symbol failures do not stop Processing: the fetches made are the
\* entries of the source list, one each, in list order, an upsert follows
\* only the successful fetch of its own entry, and a run that has read the
\* list goes on to print the summary, by then having fetched all N entries.
C7_EveryEntryFetchedOnce ==
    /\ []C7_OneFetchPerEntry
    /\ (pc = "loop") ~> SummaryPrinted

C7_Witness ==
    /\ SummaryPrinted
    /\ summary[1] = [total |-> 2, successful |-> 0, failed |-> 2]
    /\ Ops("fetch") = <<<<"fetch", "BADSYM.NS", "fail">>, <<"fetch", "TCS.NS", "ok">>>>
    /\ HasCall("insert", "TCS.NS", "fail")

-----------------------------------------------------------------------------
(* C8 *)

ListedEmpty == Count("get_company_symbols") = 1 /\ companies = <<>>

\* C8: get_company_symbols returns [] when the source table is empty, when
\* the connection is not up and when the query fails; after an empty list the
\* counters stay 0, nothing is fetched or upserted, the destination table is as
\* the run found it, the run goes only to the summary and the close, and it
\* ends with the summary total=0, successful=0, failed=0 printed and the
\* connection not open.
C8_EmptyListRun ==
    /\ HasCall("get_company_symbols", "", "fail") => companies = <<>>
    /\ (HasCall("get_company_symbols", "", "ok") /\ source = <<>>) => companies = <<>>
    /\ ListedEmpty =>
          /\ total = 0
          /\ successful = 0
          /\ failed = 0
          /\ Count("fetch") = 0
          /\ Count("insert") = 0
          /\ table = startTable
          /\ pc \in {"loop", "summary", "close", "done"}
          /\ pc \in {"close", "done"} => summary = <<[total |-> 0, successful |-> 0, failed |-> 0]>>
          /\ pc = "done" => connection # "open"

C8_Witness ==
    /\ pc = "done"
    /\ HasCall("get_company_symbols", "", "fail")
    /\ Len(source) = 2
    /\ connection = "closed"
    /\ summary = <<[total |-> 0, successful |-> 0, failed |-> 0]>>

-----------------------------------------------------------------------------
(* C9 *)

\* an iteration for symbol s had a successful fetch and a successful upsert
Stored(s) ==
    \E i \in DOMAIN calls :
        /\ calls[i] = <<"insert", s, "ok">>
        /\ calls[i - 1] = <<"fetch", s, "ok">>

\* C9: no reachable table holds two rows of one symbol; from an empty table,
\* the rows never outnumber successful and, when the run has ended, a symbol
\* has a row exactly if one of its iterations fetched and upserted
\* successfully; the run over [TCS.NS, BADSYM.NS] in which TCS.NS is fetched
\* and upserted and the fetch of BADSYM.NS fails ends with the TCS.NS row
\* alone and the summary total=2, successful=1, failed=1.
C9_OneRowPerStoredSymbol ==
    /\ \A s \in Symbols : Cardinality(RowsOf(table, s)) <= 1
    /\ \A i \in DOMAIN table : table[i].symbol \in Symbols
    /\ startTable = <<>> =>
          /\ Len(table) <= successful
          /\ pc = "done" => \A s \in Symbols : (RowsOf(table, s) # {}) <=> Stored(s)
    /\ ( /\ startTable = <<>>
         /\ SummaryPrinted
         /\ Ops("fetch") = <<<<"fetch", "TCS.NS", "ok">>, <<"fetch", "BADSYM.NS", "fail">>>>
         /\ HasCall("insert", "TCS.NS", "ok") ) =>
          /\ Len(table) = 1
          /\ table[1].symbol = "TCS.NS"
          /\ summary[1] = [total |-> 2, successful |-> 1, failed |-> 1]

C9_Witness ==
    /\ pc = "done"
    /\ startTable = <<>>
    /\ source = <<<<"TCS.NS", "Tata Consultancy">>, <<"BADSYM.NS", "Bad Co">>>>
    /\ Ops("fetch") = <<<<"fetch", "TCS.NS", "ok">>, <<"fetch", "BADSYM.NS", "fail">>>>
    /\ Len(table) = 1
    /\ table[1].symbol = "TCS.NS"
    /\ summary[1] = [total |-> 2, successful |-> 1, failed |-> 1]

-----------------------------------------------------------------------------
(* C10 *)

IsSleep(i) == calls[i][1] = "sleep"

IsFetch(i) == calls[i][1] = "fetch"

\* C10 as stated: the delay happens once per iteration and only between
\* iterations: every delay of a run is followed by the fetch of a next symbol.
C10_DelayOnlyBetweenIterations ==
    pc = "done" =>
        \A i \in DOMAIN calls : IsSleep(i) => \E j \in DOMAIN calls : j > i /\ IsFetch(j)

\* C10 amended: the delay happens exactly once per iteration, after the
\* iteration's fetch (and upsert, if any) whatever their outcome, and before
\* the next fetch; it follows the last iteration too, so that a run over N
\* symbols sleeps N times, the last time right before the summary; no fetch
\* follows another without a delay in between.
C10_DelayAfterEveryIteration ==
    /\ Count("sleep") = Slept
    /\ \A i \in DOMAIN calls :
          IsSleep(i) => calls[i - 1][1] \in {"fetch", "insert"}
    /\ \A i \in DOMAIN calls :
          (IsSleep(i) /\ calls[i - 1][1] = "fetch") => calls[i - 1][3] = "fail"
    /\ \A i, j \in DOMAIN calls :
          (i < j /\ IsFetch(i) /\ IsFetch(j)) => \E k \in (i + 1)..(j - 1) : IsSleep(k)
    /\ SummaryPrinted =>
          /\ Count("sleep") = total
          /\ total > 0 => \E i \in DOMAIN calls :
                             IsSleep(i) /\ \A j \in DOMAIN calls : j > i => calls[j][1] = "close"

C10_Witness ==
    /\ SummaryPrinted
    /\ total = 2
    /\ Count("sleep") = 2
    /\ HasCall("fetch", "TCS.NS", "fail")
    /\ HasCall("insert", "BADSYM.NS", "fail")
    /\ pc = "close"
    /\ LastCall[1] = "sleep"

====
